---------------------------- MODULE Spec2Model ----------------------------
(***************************************************************************)
(* State-machine model of the retrieval-augmented conversation engine of   *)
(* pages/3_chat.py (the chat page) and pages/5_document_chat.py (the       *)
(* document-chat page).                                                    *)
(*                                                                         *)
(* Python strings are sequences of one-character strings.  The module      *)
(* holds several specifications over one set of variables:                 *)
(*   Spec        the session: the runs of the two pages over the shared     *)
(*               st.session_state and the session files                     *)
(*   SpecResumed the session again, followed for a shorter time and begun    *)
(*               with or without an earlier session's file on disk           *)
(*   SpecSearch  search_documents, the evidence aggregator                  *)
(*   SpecStore   the session file: json.dump and json.load over UTF-8       *)
(*   SpecAgent   one agent.run: the bounded reasoning loop                   *)
(*   SpecPager   display_content_viewer and extract_pdf_content              *)
(*   SpecRecent  get_recent_history                                          *)
(*   SpecSelector the history selector of the chat page over the files of    *)
(*               several agents                                              *)
(* Each specification leaves the variables of the others at their initial  *)
(* values.                                                                 *)
(***************************************************************************)
EXTENDS Integers, Sequences, FiniteSets, TLC

(***************************************************************************)
(* Bounds of the model.                                                    *)
(***************************************************************************)
MaxConfigSize == 5
MaxWindow == 2
MaxClock == 19
MaxDay == 2
MaxFailures == 1
MaxTurns == 2
MaxQueries == 2
MaxLookups == 2
MaxCalls == 2
ResumedLen == 7
MaxLog == 6
MaxRecent == 3

VARIABLES
    page,               \* the page shown: "none" before the first run
    has_messages,       \* whether "messages" is in st.session_state
    messages,           \* st.session_state.messages, <<>> while absent
    agent,              \* whether "agent" is in st.session_state
    files,              \* data/chat_history: session key -> [exists, turns]
    config_name,        \* st.session_state.current_agent_config['name']
    today,              \* the calendar day datetime.now() reports
    clock,              \* the time datetime.now() reports next
    last_op,            \* the operation the last run carried out
    resets,             \* whether the chat was cleared or a history loaded
    failures,           \* how many queries have failed
    agent_builds,       \* how many times initialize_agent has returned an agent
    sd_vectorstores,    \* config['vectorstores']: <<[title, docs, raises]>>
    sd_context_window,  \* config['context_window']
    sd_out,             \* what search_documents returned, NoOutput before
    st_turns,           \* the turn list a save is given
    st_disk,            \* data/chat_history as bytes: key -> [exists, bytes]
    st_saved,           \* the turn list last saved under each key
    st_loaded,          \* what the last load_agent_history returned
    st_op,              \* the last operation on the session files
    ag_stub,            \* the language model behind the agent
    ag_status,          \* "Uninitialized", "Initialized" or "Answering"
    ag_iterations,      \* reasoning iterations of the query so far
    ag_steps,           \* the observations of the query's tool calls
    ag_partial,         \* the partial answer accumulated so far
    ag_result,          \* how agent.run ended: [kind, output]
    ag_queries,         \* how many queries were put to the agent
    pg_docs,            \* the documents on disk: path -> document
    pg_cache,           \* st.session_state["pdf_content_" + path]
    pg_calls,           \* calls of extract_pdf_content per path
    pg_first,           \* what the first extraction of a path returned
    pg_lookups,         \* calls of display_content_viewer per path
    pg_shown,           \* what the last display_content_viewer showed
    pg_last,            \* the last call of extract_pdf_content
    rh_messages,        \* the log get_recent_history is given
    rh_max_messages,    \* its max_messages argument
    rh_out,             \* the string it returned
    rh_op,              \* the last operation on the log
    hs_store,           \* data/chat_history with several agents' files
    hs_config_name,     \* current_agent_config['name'] of the session
    hs_options,         \* the histories the selector offered: [name, keys]
    hs_loaded,          \* what "Cargar Historial" put in messages
    hs_op               \* the last step at the selector

searchVars == <<sd_vectorstores, sd_context_window, sd_out>>

storeVars == <<st_turns, st_disk, st_saved, st_loaded, st_op>>

chatVars == <<page, has_messages, messages, agent, files, config_name, today, clock, last_op,
              resets, failures, agent_builds>>

agentVars == <<ag_stub, ag_status, ag_iterations, ag_steps, ag_partial, ag_result,
               ag_queries>>

pagerVars == <<pg_docs, pg_cache, pg_calls, pg_first, pg_lookups, pg_shown, pg_last>>

recentVars == <<rh_messages, rh_max_messages, rh_out, rh_op>>

selectorVars == <<hs_store, hs_config_name, hs_options, hs_loaded, hs_op>>

\* what the actions of one specification leave alone
nonChatVars == <<searchVars, storeVars, agentVars, pagerVars, recentVars,
                 selectorVars>>

nonSearchVars == <<chatVars, storeVars, agentVars, pagerVars, recentVars,
                   selectorVars>>

nonStoreVars == <<chatVars, searchVars, agentVars, pagerVars, recentVars,
                  selectorVars>>

nonAgentVars == <<chatVars, searchVars, storeVars, pagerVars, recentVars,
                  selectorVars>>

nonPagerVars == <<chatVars, searchVars, storeVars, agentVars, recentVars,
                  selectorVars>>

nonRecentVars == <<chatVars, searchVars, storeVars, agentVars, pagerVars,
                   selectorVars>>

nonSelectorVars == <<chatVars, searchVars, storeVars, agentVars, pagerVars,
                     recentVars>>

vars == <<page, has_messages, messages, agent, files, config_name, today, clock, last_op,
          resets, failures, agent_builds, sd_vectorstores, sd_context_window, sd_out,
          st_turns, st_disk, st_saved, st_loaded, st_op,
          ag_stub, ag_status, ag_iterations, ag_steps, ag_partial, ag_result,
          ag_queries,
          pg_docs, pg_cache, pg_calls, pg_first, pg_lookups, pg_shown, pg_last,
          rh_messages, rh_max_messages, rh_out, rh_op,
          hs_store, hs_config_name, hs_options, hs_loaded, hs_op>>

(***************************************************************************)
(* Python string operations.                                               *)
(***************************************************************************)
Min(a, b) == IF a <= b THEN a ELSE b

Max(a, b) == IF a >= b THEN a ELSE b

IsSpace(c) == c \in {" ", "\n", "\t", "\r"}

RECURSIVE LStrip(_)
LStrip(s) ==
    IF s # <<>> /\ IsSpace(Head(s)) THEN LStrip(Tail(s)) ELSE s

RECURSIVE RStrip(_)
RStrip(s) ==
    IF s # <<>> /\ IsSpace(s[Len(s)])
    THEN RStrip(SubSeq(s, 1, Len(s) - 1))
    ELSE s

\* str.strip()
Strip(s) == RStrip(LStrip(s))

\* whether sep occurs in s at position i
MatchAt(s, sep, i) ==
    /\ i + Len(sep) - 1 <= Len(s)
    /\ \A k \in 1..Len(sep) : s[i + k - 1] = sep[k]

\* str.split(sep) for a non-empty sep: the pieces between the
\* non-overlapping occurrences of sep, scanned left to right
RECURSIVE SplitFrom(_, _, _, _)
SplitFrom(s, sep, i, cur) ==
    IF i > Len(s) THEN <<cur>>
    ELSE IF MatchAt(s, sep, i)
         THEN <<cur>> \o SplitFrom(s, sep, i + Len(sep), <<>>)
         ELSE SplitFrom(s, sep, i + 1, Append(cur, s[i]))

Split(s, sep) == SplitFrom(s, sep, 1, <<>>)

\* sep.join(parts)
RECURSIVE Join(_, _)
Join(parts, sep) ==
    IF parts = <<>> THEN <<>>
    ELSE IF Len(parts) = 1 THEN parts[1]
    ELSE parts[1] \o sep \o Join(Tail(parts), sep)

\* seq[:n] for n >= 0
Take(seq, n) == SubSeq(seq, 1, Min(n, Len(seq)))

\* seq[-n:] for n >= 1
LastN(seq, n) == SubSeq(seq, Max(1, Len(seq) - n + 1), Len(seq))

(***************************************************************************)
(* The session: st.session_state shared by the two pages, and the session  *)
(* files.  A stored file is held as the turn sequence json.load returns    *)
(* for it; the encoding itself is modelled by json_dump and json_load.     *)
(***************************************************************************)
Names == { <<"Tutor">> }

Days == 1..MaxDay

NoFile == [exists |-> FALSE, turns |-> <<>>]

\* "if len(st.session_state.messages) > 15" and "[-15:]"
MaxMessages == 15

\* f"agent_{config['name']}_{datetime.now().strftime('%Y%m%d')}"
get_agent_id(name, day) == <<"agent", "_">> \o name \o <<"_", day>>

Keys == { get_agent_id(n, d) : n \in Names, d \in Days }

Turn(role, content, timestamp) ==
    [role |-> role, content |-> content, timestamp |-> timestamp]

\* the stored view of load_agent_history: the file's turns, [] without a file
load_agent_history(store, agent_id) ==
    IF store[agent_id].exists THEN store[agent_id].turns ELSE <<>>

\* the stored view of save_agent_history: the file is overwritten
save_agent_history(store, agent_id, msgs) ==
    [store EXCEPT ![agent_id] = [exists |-> TRUE, turns |-> msgs]]

\* "Mantener historial manejable": the chat page's last statement
CapMessages(msgs) ==
    IF Len(msgs) > MaxMessages THEN LastN(msgs, MaxMessages) ELSE msgs

\* the document-chat page ends with the except clause: no cap
DocPageEnd(msgs) == msgs

\* 'if "messages" not in st.session_state': the welcome turn
InitMessages(present, msgs, now) ==
    IF ~present THEN <<Turn("assistant", "welcome", now)>> ELSE msgs

\* the end of a run of page p
PageEnd(p, msgs) == IF p = "chat" THEN CapMessages(msgs) ELSE DocPageEnd(msgs)

\* file.startswith(f"agent_{config['name']}_") and file.endswith(".json")
IsPrefix(pre, s) == Len(pre) <= Len(s) /\ SubSeq(s, 1, Len(pre)) = pre

histories(store, name) ==
    { k \in DOMAIN store :
        /\ store[k].exists
        /\ IsPrefix(<<"agent", "_">> \o name \o <<"_">>, k) }

\* a clear that also removes the file of the session
OnClearRemovesFile(store, agent_id) == [store EXCEPT ![agent_id] = NoFile]

\* "Limpiar Chat" empties the log and drops the agent: no file is touched
OnClear(store, agent_id) == store

\* a save placed before the answer is appended
SavedBeforeAnswer(asked, answered) == asked

\* save_agent_history(agent_id, st.session_state.messages) of an answered
\* query: the statement follows the append of the answer
SavedOnAnswer(asked, answered) == answered

\* an agent built anew for every query
AgentMissingAlways(present) == TRUE

\* 'if "agent" not in st.session_state'
AgentMissing(present) == ~present

\* the except clause of a query: the error turn is appended, nothing is saved
OnQueryError(store, agent_id, msgs) == store

ChatIdle ==
    /\ page = "none"
    /\ has_messages = FALSE
    /\ messages = <<>>
    /\ agent = FALSE
    /\ files = [k \in Keys |-> NoFile]
    /\ config_name \in Names
    /\ today = 1
    /\ clock = 1
    /\ last_op = "none"
    /\ resets = FALSE
    /\ failures = 0
    /\ agent_builds = 0

\* the log an earlier session of the first day left in its file: a welcome
\* and answered queries, one turn short of the cap, written before the clock
\* of the model starts
EarlierSession ==
    [i \in 1..(MaxMessages - 1) |->
        Turn(IF i % 2 = 1 THEN "assistant" ELSE "user",
             IF i = 1 THEN "welcome" ELSE IF i % 2 = 1 THEN "a" ELSE "q",
             i - MaxMessages)]

\* a session begun when ResumedLen ticks of the clock remain, the history
\* directory empty or holding the earlier session's file
ChatResumed ==
    /\ page = "none"
    /\ has_messages = FALSE
    /\ messages = <<>>
    /\ agent = FALSE
    /\ config_name \in Names
    /\ files \in { [k \in Keys |-> NoFile],
                   [k \in Keys |-> IF k = get_agent_id(config_name, 1)
                                   THEN [exists |-> TRUE, turns |-> EarlierSession]
                                   ELSE NoFile] }
    /\ today = 1
    /\ clock = MaxClock - ResumedLen
    /\ last_op = "none"
    /\ resets = FALSE
    /\ failures = 0
    /\ agent_builds = 0

\* a run of page p with no widget input: the first visit, a page switch
Visit(p) ==
    /\ p # page
    /\ clock <= MaxClock
    /\ page' = p
    /\ has_messages' = TRUE
    /\ messages' = PageEnd(p, InitMessages(has_messages, messages, clock))
    /\ clock' = IF has_messages THEN clock ELSE clock + 1
    /\ last_op' = "visit"
    /\ UNCHANGED <<agent, files, config_name, today, resets, failures, agent_builds>>
    /\ UNCHANGED nonChatVars

\* a run with a chat input that the agent answers
QueryOk ==
    /\ page \in {"chat", "doc"}
    /\ clock + 1 <= MaxClock
    /\ LET asked == Append(messages, Turn("user", "q", clock))
           answered == Append(asked, Turn("assistant", "a", clock + 1))
       IN /\ files' = save_agent_history(files, get_agent_id(config_name, today),
                                         SavedOnAnswer(asked, answered))
          /\ messages' = PageEnd(page, answered)
    /\ agent' = TRUE
    /\ agent_builds' = IF AgentMissing(agent) THEN agent_builds + 1 ELSE agent_builds
    /\ clock' = clock + 2
    /\ last_op' = "query ok"
    /\ UNCHANGED <<page, has_messages, config_name, today, resets, failures>>
    /\ UNCHANGED nonChatVars

\* a run with a chat input during which initialize_agent ("init") or
\* agent.run ("run") raises
QueryError(at) ==
    /\ page \in {"chat", "doc"}
    /\ clock + 1 <= MaxClock
    /\ failures < MaxFailures
    /\ at = "init" => AgentMissing(agent)
    /\ LET asked == Append(messages, Turn("user", "q", clock))
           failed == Append(asked, Turn("assistant", "error", clock + 1))
       IN /\ files' = OnQueryError(files, get_agent_id(config_name, today), failed)
          /\ messages' = PageEnd(page, failed)
    /\ agent' = IF at = "init" THEN agent ELSE TRUE
    /\ agent_builds' = IF at = "run" /\ AgentMissing(agent)
                       THEN agent_builds + 1 ELSE agent_builds
    /\ clock' = clock + 2
    /\ failures' = failures + 1
    /\ last_op' = "query error"
    /\ UNCHANGED <<page, has_messages, config_name, today, resets>>
    /\ UNCHANGED nonChatVars

\* "Cargar Historial" on the chat page, and the rerun it asks for
LoadHistory(selected) ==
    /\ page = "chat"
    /\ selected \in histories(files, config_name)
    /\ messages' = PageEnd("chat", load_agent_history(files, selected))
    /\ last_op' = "load"
    /\ resets' = TRUE
    /\ UNCHANGED <<page, has_messages, agent, files, config_name, today, clock,
                   failures, agent_builds>>
    /\ UNCHANGED nonChatVars

\* "Limpiar Chat" on the chat page, and the rerun it asks for
ClearChat ==
    /\ page = "chat"
    /\ messages' = PageEnd("chat", <<>>)
    /\ agent' = FALSE
    /\ files' = OnClear(files, get_agent_id(config_name, today))
    /\ last_op' = "clear"
    /\ resets' = TRUE
    /\ UNCHANGED <<page, has_messages, config_name, today, clock, failures,
                   agent_builds>>
    /\ UNCHANGED nonChatVars

\* "Guardar Historial" on the chat page
SaveHistory ==
    /\ page = "chat"
    /\ files' = IF messages # <<>>
                THEN save_agent_history(files, get_agent_id(config_name, today),
                                        messages)
                ELSE files
    /\ messages' = PageEnd("chat", messages)
    /\ last_op' = "save"
    /\ UNCHANGED <<page, has_messages, agent, config_name, today, clock, resets,
                   failures, agent_builds>>
    /\ UNCHANGED nonChatVars

\* midnight passes between two runs
DayRollover ==
    /\ today < MaxDay
    /\ today' = today + 1
    /\ UNCHANGED <<page, has_messages, messages, agent, files, config_name, clock,
                   last_op, resets, failures, agent_builds>>
    /\ UNCHANGED nonChatVars

(***************************************************************************)
(* search_documents: the evidence aggregator.                              *)
(***************************************************************************)
\* the passage texts a retriever may return and the titles an index may have
Texts == { <<"a">>, <<" ", "a", " ">>, <<"b">>, <<"a", "]", ":", "b">> }

Titles == { <<"T">>, <<"U", "]", ":">> }

NoOutput == [kind |-> "none yet"]

NotFoundMsg == <<"No encontré información específica. ¿Podrías reformular la pregunta?">>

ErrorMsg == <<"Error al buscar: ">>

\* f"[{source}]: {content}"
FormatResult(source, content) == <<"[">> \o source \o <<"]", ":", " ">> \o content

\* r.split(']:')[1].strip(): the text the code takes an accepted entry to hold
EntryText(r) == Strip(Split(r, <<"]", ":">>)[2])

\* content not in [r.split(']:')[1].strip() for r in results]
IsNew(content, results) ==
    \A k \in 1..Len(results) : EntryText(results[k]) # content

\* the body of "for doc in docs"
RECURSIVE ProcessDocs(_, _, _)
ProcessDocs(results, source, docs) ==
    IF docs = <<>> THEN results
    ELSE LET content == Strip(Head(docs))
             next == IF IsNew(content, results)
                     THEN Append(results, FormatResult(source, content))
                     ELSE results
         IN ProcessDocs(next, source, Tail(docs))

\* the body of "for vs in config['vectorstores']"; a retriever that raises
\* leaves the loop through the except clause
RECURSIVE ProcessIndexes(_, _)
ProcessIndexes(results, vss) ==
    IF vss = <<>> THEN [raised |-> FALSE, results |-> results]
    ELSE IF Head(vss).raises THEN [raised |-> TRUE, results |-> results]
    ELSE ProcessIndexes(ProcessDocs(results, Head(vss).title, Head(vss).docs),
                        Tail(vss))

\* results[:config['context_window']] with an off-by-one slice
TruncateOffByOne(results, n) == Take(results, n + 1)

\* results[:config['context_window']]
Truncate(results, n) == Take(results, n)

\* the except clause: the error string is all that is returned
OnRetrievalError(results, n) ==
    [kind |-> "error", text |-> ErrorMsg, blocks |-> <<>>]

search_documents(vss, n) ==
    LET r == ProcessIndexes(<<>>, vss)
    IN IF r.raised THEN OnRetrievalError(r.results, n)
       ELSE IF r.results # <<>>
            THEN [kind |-> "passages",
                  text |-> Join(Truncate(r.results, n), <<"\n", "\n">>),
                  blocks |-> Truncate(r.results, n)]
            ELSE [kind |-> "passages none", text |-> NotFoundMsg, blocks |-> <<>>]

TotalPassages(vss) ==
    LET RECURSIVE Sum(_)
        Sum(k) == IF k = 0 THEN 0 ELSE Len(vss[k].docs) + Sum(k - 1)
    IN Sum(Len(vss))

SearchIdle ==
    /\ sd_vectorstores = <<>>
    /\ sd_context_window = 1
    /\ sd_out = NoOutput

\* the size of a configuration: its indexes plus the passages they return
ConfigSize(vss) == Len(vss) + TotalPassages(vss)

\* the agent configuration gains a document index
CfgAddIndex(title) ==
    /\ sd_out = NoOutput
    /\ ConfigSize(sd_vectorstores) < MaxConfigSize
    /\ sd_vectorstores' =
           Append(sd_vectorstores, [title |-> title, docs |-> <<>>, raises |-> FALSE])
    /\ UNCHANGED <<sd_context_window, sd_out>>
    /\ UNCHANGED nonSearchVars

\* the last index's retriever has one more passage to return for the query
CfgAddDoc(text) ==
    /\ sd_out = NoOutput
    /\ sd_vectorstores # <<>>
    /\ ~sd_vectorstores[Len(sd_vectorstores)].raises
    /\ ConfigSize(sd_vectorstores) < MaxConfigSize
    /\ sd_vectorstores' =
           [sd_vectorstores EXCEPT ![Len(sd_vectorstores)].docs = Append(@, text)]
    /\ UNCHANGED <<sd_context_window, sd_out>>
    /\ UNCHANGED nonSearchVars

\* the last index's retriever raises when queried
CfgIndexFails ==
    /\ sd_out = NoOutput
    /\ sd_vectorstores # <<>>
    /\ sd_vectorstores[Len(sd_vectorstores)].docs = <<>>
    /\ ~sd_vectorstores[Len(sd_vectorstores)].raises
    /\ sd_vectorstores' =
           [sd_vectorstores EXCEPT ![Len(sd_vectorstores)].raises = TRUE]
    /\ UNCHANGED <<sd_context_window, sd_out>>
    /\ UNCHANGED nonSearchVars

\* the agent calls the tool
SearchDocuments ==
    /\ sd_out = NoOutput
    /\ sd_out' = search_documents(sd_vectorstores, sd_context_window)
    /\ UNCHANGED <<sd_vectorstores, sd_context_window>>
    /\ UNCHANGED nonSearchVars

(***************************************************************************)
(* The session file as bytes.  A text is a sequence of code points, a file *)
(* a sequence of bytes.  A turn is a dict: its <<key, value>> members in   *)
(* insertion order, keys and values being texts.                           *)
(***************************************************************************)
Ord ==
    "a" :> 97 @@ "c" :> 99 @@ "e" :> 101 @@ "i" :> 105 @@ "l" :> 108 @@
    "m" :> 109 @@ "n" :> 110 @@ "o" :> 111 @@ "p" :> 112 @@ "r" :> 114 @@
    "s" :> 115 @@ "t" :> 116 @@ "u" :> 117

Lit(s) == [i \in 1..Len(s) |-> Ord[s[i]]]

RoleKey == Lit(<<"r", "o", "l", "e">>)

ContentKey == Lit(<<"c", "o", "n", "t", "e", "n", "t">>)

TimestampKey == Lit(<<"t", "i", "m", "e", "s", "t", "a", "m", "p">>)

UserRole == Lit(<<"u", "s", "e", "r">>)

AssistantRole == Lit(<<"a", "s", "s", "i", "s", "t", "a", "n", "t">>)

\* {"role": ..., "content": ..., "timestamp": ...}
DictTurn(role, content, timestamp) ==
    << [key |-> RoleKey, value |-> role],
       [key |-> ContentKey, value |-> content],
       [key |-> TimestampKey, value |-> timestamp] >>

\* lowercase hexadecimal digit, as '\\u{0:04x}' writes it
HexDigit(n) == IF n < 10 THEN 48 + n ELSE 87 + n

\* a string written with no escaping at all
EscapeCharRaw(c) == <<c>>

\* json.encoder.ESCAPE and ESCAPE_DCT (ensure_ascii=False): the quote, the
\* backslash and the control characters are escaped, all else is kept
EscapeChar(c) ==
    CASE c = 34 -> <<92, 34>>
      [] c = 92 -> <<92, 92>>
      [] c = 10 -> <<92, 110>>
      [] c = 13 -> <<92, 114>>
      [] c = 9 -> <<92, 116>>
      [] c = 8 -> <<92, 98>>
      [] c = 12 -> <<92, 102>>
      [] c < 32 /\ c \notin {8, 9, 10, 12, 13} ->
             <<92, 117, 48, 48, HexDigit(c \div 16), HexDigit(c % 16)>>
      [] OTHER -> <<c>>

RECURSIVE EscapeAll(_)
EscapeAll(s) ==
    IF s = <<>> THEN <<>> ELSE EscapeChar(Head(s)) \o EscapeAll(Tail(s))

EncodeString(s) == <<34>> \o EscapeAll(s) \o <<34>>

Spaces(n) == [i \in 1..n |-> 32]

\* a member of an object at indent level 2: '    "key": "value"'
EncodeMember(m) ==
    Spaces(4) \o EncodeString(m.key) \o <<58, 32>> \o EncodeString(m.value)

\* an object at indent level 1
EncodeDict(d) ==
    IF d = <<>> THEN <<123, 125>>
    ELSE <<123, 10>>
         \o Join([i \in 1..Len(d) |-> EncodeMember(d[i])], <<44, 10>>)
         \o <<10>> \o Spaces(2) \o <<125>>

\* json.dump(messages, f, ensure_ascii=False, indent=2): the text written
json_dump(l) ==
    IF l = <<>> THEN <<91, 93>>
    ELSE <<91, 10>>
         \o Join([i \in 1..Len(l) |-> Spaces(2) \o EncodeDict(l[i])], <<44, 10>>)
         \o <<10, 93>>

\* open(..., 'w', encoding='utf-8'): a code point as bytes
Utf8EncodeChar(cp) ==
    IF cp < 128 THEN <<cp>>
    ELSE IF cp < 2048 THEN <<192 + (cp \div 64), 128 + (cp % 64)>>
    ELSE IF cp < 65536
         THEN <<224 + (cp \div 4096), 128 + ((cp \div 64) % 64), 128 + (cp % 64)>>
    ELSE <<240 + (cp \div 262144), 128 + ((cp \div 4096) % 64),
           128 + ((cp \div 64) % 64), 128 + (cp % 64)>>

\* the concatenation of seqs[lo..hi]
RECURSIVE Concat(_, _, _)
Concat(seqs, lo, hi) ==
    IF lo > hi THEN <<>>
    ELSE IF lo = hi THEN seqs[lo]
    ELSE Concat(seqs, lo, (lo + hi) \div 2) \o Concat(seqs, (lo + hi) \div 2 + 1, hi)

\* text.encode('utf-8')
Utf8Encode(text) ==
    Concat([i \in 1..Len(text) |-> Utf8EncodeChar(text[i])], 1, Len(text))

\* the code point whose first byte is at position i
Utf8DecodeAt(b, i) ==
    IF b[i] < 128 THEN b[i]
    ELSE IF b[i] < 224 THEN (b[i] - 192) * 64 + (b[i + 1] - 128)
    ELSE IF b[i] < 240
         THEN (b[i] - 224) * 4096 + (b[i + 1] - 128) * 64 + (b[i + 2] - 128)
    ELSE (b[i] - 240) * 262144 + (b[i + 1] - 128) * 4096
         + (b[i + 2] - 128) * 64 + (b[i + 3] - 128)

\* bytes.decode('utf-8') of well-formed UTF-8 (the pages' own files): one
\* code point per byte that is not a continuation byte
Utf8Decode(b) ==
    LET firsts == SelectSeq([i \in 1..Len(b) |-> i],
                            LAMBDA i : b[i] \notin 128..191)
    IN [k \in 1..Len(firsts) |-> Utf8DecodeAt(b, firsts[k])]

\* json.decoder.WHITESPACE
IsWs(c) == c \in {32, 9, 10, 13}

RECURSIVE SkipWs(_, _)
SkipWs(t, i) == IF i <= Len(t) /\ IsWs(t[i]) THEN SkipWs(t, i + 1) ELSE i

\* a JSONDecodeError
Fail == [ok |-> FALSE, val |-> <<>>, pos |-> 0]

HexVal(c) ==
    IF c \in 48..57 THEN c - 48
    ELSE IF c \in 97..102 THEN c - 87
    ELSE IF c \in 65..70 THEN c - 55
    ELSE -1

\* json.decoder.BACKSLASH
Unescape ==
    34 :> 34 @@ 92 :> 92 @@ 47 :> 47 @@ 98 :> 8 @@ 102 :> 12 @@ 110 :> 10 @@
    114 :> 13 @@ 116 :> 9

\* json.decoder.py_scanstring (strict) from position i, after the opening
\* quote; the files the pages write hold no \u surrogate pairs
RECURSIVE ParseStringBody(_, _, _)
ParseStringBody(t, i, acc) ==
    IF i > Len(t) THEN Fail
    ELSE IF t[i] = 34 THEN [ok |-> TRUE, val |-> acc, pos |-> i + 1]
    ELSE IF t[i] = 92
         THEN IF i + 1 > Len(t) THEN Fail
              ELSE IF t[i + 1] = 117
                   THEN IF \/ i + 5 > Len(t)
                           \/ \E k \in 2..5 : HexVal(t[i + k]) < 0
                        THEN Fail
                        ELSE ParseStringBody(t, i + 6,
                                 Append(acc, HexVal(t[i + 2]) * 4096
                                             + HexVal(t[i + 3]) * 256
                                             + HexVal(t[i + 4]) * 16
                                             + HexVal(t[i + 5])))
              ELSE IF t[i + 1] \in DOMAIN Unescape
                   THEN ParseStringBody(t, i + 2, Append(acc, Unescape[t[i + 1]]))
              ELSE Fail
    ELSE IF t[i] < 32 THEN Fail
    ELSE ParseStringBody(t, i + 1, Append(acc, t[i]))

ParseString(t, i) ==
    IF i <= Len(t) /\ t[i] = 34 THEN ParseStringBody(t, i + 1, <<>>) ELSE Fail

\* d[key] = value on an insertion-ordered dict
DictSet(d, key, value) ==
    IF \E j \in 1..Len(d) : d[j].key = key
    THEN [j \in 1..Len(d) |->
             IF d[j].key = key THEN [key |-> key, value |-> value] ELSE d[j]]
    ELSE Append(d, [key |-> key, value |-> value])

\* the members of an object from the key at position i on; the values the
\* pages write are strings
RECURSIVE ParseMembers(_, _, _)
ParseMembers(t, i, acc) ==
    LET k == ParseString(t, i)
        colon == SkipWs(t, k.pos)
    IN IF ~k.ok \/ colon > Len(t) THEN Fail
       ELSE IF t[colon] # 58 THEN Fail
       ELSE LET v == ParseString(t, SkipWs(t, colon + 1))
                e == SkipWs(t, v.pos)
            IN IF ~v.ok \/ e > Len(t) THEN Fail
               ELSE IF t[e] = 125
                    THEN [ok |-> TRUE, val |-> DictSet(acc, k.val, v.val),
                          pos |-> e + 1]
               ELSE IF t[e] = 44
                    THEN ParseMembers(t, SkipWs(t, e + 1),
                                      DictSet(acc, k.val, v.val))
               ELSE Fail

\* json.decoder.JSONObject
ParseObject(t, i) ==
    IF i > Len(t) THEN Fail
    ELSE IF t[i] # 123 THEN Fail
    ELSE LET j == SkipWs(t, i + 1)
         IN IF j > Len(t) THEN Fail
            ELSE IF t[j] = 125 THEN [ok |-> TRUE, val |-> <<>>, pos |-> j + 1]
            ELSE ParseMembers(t, j, <<>>)

\* the elements of an array from the value at position i on; the elements
\* the pages write are objects
RECURSIVE ParseElements(_, _, _)
ParseElements(t, i, acc) ==
    LET o == ParseObject(t, i)
        e == SkipWs(t, o.pos)
    IN IF ~o.ok \/ e > Len(t) THEN Fail
       ELSE IF t[e] = 93
            THEN [ok |-> TRUE, val |-> Append(acc, o.val), pos |-> e + 1]
       ELSE IF t[e] = 44
            THEN ParseElements(t, SkipWs(t, e + 1), Append(acc, o.val))
       ELSE Fail

\* json.decoder.JSONArray
ParseArray(t, i) ==
    IF i > Len(t) THEN Fail
    ELSE IF t[i] # 91 THEN Fail
    ELSE LET j == SkipWs(t, i + 1)
         IN IF j > Len(t) THEN Fail
            ELSE IF t[j] = 93 THEN [ok |-> TRUE, val |-> <<>>, pos |-> j + 1]
            ELSE ParseElements(t, j, <<>>)

\* json.load(f): the document, then nothing but whitespace
json_load(t) ==
    LET a == ParseArray(t, SkipWs(t, 1))
    IN IF ~a.ok THEN Fail
       ELSE IF SkipWs(t, a.pos) <= Len(t) THEN Fail
       ELSE a

NoBytes == [exists |-> FALSE, bytes |-> <<>>]

\* save_agent_history on the bytes of the file
WriteHistory(disk, agent_id, msgs) ==
    [disk EXCEPT ![agent_id] =
        [exists |-> TRUE, bytes |-> Utf8Encode(json_dump(msgs))]]

\* load_agent_history on the bytes of the file
ReadHistory(disk, agent_id) ==
    IF disk[agent_id].exists
    THEN LET r == json_load(Utf8Decode(disk[agent_id].bytes))
         IN [key |-> agent_id, raised |-> ~r.ok, turns |-> r.val]
    ELSE [key |-> agent_id, raised |-> FALSE, turns |-> <<>>]

\* the contents a turn may hold: empty; a quote and a backslash before an
\* n; a line break and a control character; 2- and 3-byte characters; a
\* 4-byte character and a plain letter
Contents ==
    { <<>>, <<34, 92, 110>>, <<10, 1>>, <<233, 8364>>, <<128172, 97>> }

\* datetime.now().isoformat() of the k-th turn (a digit stands for it)
IsoTimestamp(k) == <<48 + k>>

NothingLoaded == [key |-> <<>>, raised |-> FALSE, turns |-> <<>>]

StoreIdle ==
    /\ st_turns = <<>>
    /\ st_disk = [k \in Keys |-> NoBytes]
    /\ st_saved = [k \in Keys |-> [exists |-> FALSE, turns |-> <<>>]]
    /\ st_loaded = NothingLoaded
    /\ st_op = "none"

\* a turn is appended to the list: the assistant's welcome first, then the
\* user's and the assistant's turns alternate
StoreAppend(content) ==
    /\ Len(st_turns) < MaxTurns
    /\ \A k \in Keys : ~st_disk[k].exists
    /\ st_turns' = Append(st_turns,
                          DictTurn(IF Len(st_turns) % 2 = 0
                                   THEN AssistantRole ELSE UserRole,
                                   content, IsoTimestamp(Len(st_turns) + 1)))
    /\ st_loaded' = NothingLoaded
    /\ st_op' = "append"
    /\ UNCHANGED <<st_disk, st_saved>>
    /\ UNCHANGED nonStoreVars

\* the list is emptied
StoreClear ==
    /\ st_turns # <<>>
    /\ \E k \in Keys : st_disk[k].exists
    /\ st_turns' = <<>>
    /\ st_loaded' = NothingLoaded
    /\ st_op' = "clear"
    /\ UNCHANGED <<st_disk, st_saved>>
    /\ UNCHANGED nonStoreVars

\* save_agent_history(agent_id, st_turns)
StoreSave(agent_id) ==
    /\ st_disk' = WriteHistory(st_disk, agent_id, st_turns)
    /\ st_saved' = [st_saved EXCEPT ![agent_id] = [exists |-> TRUE, turns |-> st_turns]]
    /\ st_loaded' = NothingLoaded
    /\ st_op' = "save"
    /\ UNCHANGED st_turns
    /\ UNCHANGED nonStoreVars

\* load_agent_history(agent_id): st_loaded is what the call returns
StoreLoad(agent_id) ==
    /\ st_loaded' = ReadHistory(st_disk, agent_id)
    /\ st_op' = "load"
    /\ UNCHANGED <<st_turns, st_disk, st_saved>>
    /\ UNCHANGED nonStoreVars

(***************************************************************************)
(* The tutoring agent loop: one agent.run(prompt).  The pages build the    *)
(* agent with initialize_agent and hand the loop to it; the loop is        *)
(* modelled from its description: per query up to max_iterations           *)
(* reasoning iterations, each calling the search tool or giving the final  *)
(* answer; past the cap the partial answer, or a generic message.          *)
(***************************************************************************)
\* an iteration cap one too high
MaxIterationsOffByOne == 3 + 1

\* initialize_agent(..., max_iterations=3, ...)
max_iterations == 3

\* the models that may stand behind the agent: a stub that asks for a tool
\* call at every iteration, and a model free to do anything
Stubs == {"always tool", "free"}

\* what a call of the search tool hands back to the loop
Observations == {"passages", "not found"}

\* the text a model may attach to a tool request
Thoughts == {<<>>, <<"partial">>}

CouldNotComplete == <<"could not complete">>

NoResult == [kind |-> "none", output |-> <<>>]

\* the answer once the cap is reached: the partial answer, else the generic
\* message
FallbackAnswer(partial) == IF partial # <<>> THEN partial ELSE CouldNotComplete

\* whether the loop goes on to another iteration
ShouldContinue(iterations) == iterations < max_iterations

AgentIdle ==
    /\ ag_stub = "free"
    /\ ag_status = "Uninitialized"
    /\ ag_iterations = 0
    /\ ag_steps = <<>>
    /\ ag_partial = <<>>
    /\ ag_result = NoResult
    /\ ag_queries = 0

\* agent.run(prompt) begins; the first query builds the agent
AgentRun ==
    /\ ag_status \in {"Uninitialized", "Initialized"}
    /\ ag_queries < MaxQueries
    /\ ag_status' = "Answering"
    /\ ag_iterations' = 0
    /\ ag_steps' = <<>>
    /\ ag_partial' = <<>>
    /\ ag_result' = NoResult
    /\ ag_queries' = ag_queries + 1
    /\ UNCHANGED ag_stub
    /\ UNCHANGED nonAgentVars

\* an iteration in which the model asks for the search tool
AgentCallsTool(thought, observation) ==
    /\ ag_status = "Answering"
    /\ ShouldContinue(ag_iterations)
    /\ ag_iterations' = ag_iterations + 1
    /\ ag_steps' = Append(ag_steps, observation)
    /\ ag_partial' = IF thought # <<>> THEN thought ELSE ag_partial
    /\ UNCHANGED <<ag_stub, ag_status, ag_result, ag_queries>>
    /\ UNCHANGED nonAgentVars

\* an iteration in which the model gives its final answer
AgentAnswers(answer) ==
    /\ ag_status = "Answering"
    /\ ag_stub = "free"
    /\ ShouldContinue(ag_iterations)
    /\ ag_iterations' = ag_iterations + 1
    /\ ag_result' = [kind |-> "answer", output |-> answer]
    /\ ag_status' = "Initialized"
    /\ UNCHANGED <<ag_stub, ag_steps, ag_partial, ag_queries>>
    /\ UNCHANGED nonAgentVars

\* an iteration in which the model invocation raises
AgentModelRaises ==
    /\ ag_status = "Answering"
    /\ ag_stub = "free"
    /\ ShouldContinue(ag_iterations)
    /\ ag_iterations' = ag_iterations + 1
    /\ ag_result' = [kind |-> "error", output |-> <<"error">>]
    /\ ag_status' = "Initialized"
    /\ UNCHANGED <<ag_stub, ag_steps, ag_partial, ag_queries>>
    /\ UNCHANGED nonAgentVars

\* the cap is reached: the query ends with the fallback answer
AgentCapReached ==
    /\ ag_status = "Answering"
    /\ ~ShouldContinue(ag_iterations)
    /\ ag_result' = [kind |-> "fallback", output |-> FallbackAnswer(ag_partial)]
    /\ ag_status' = "Initialized"
    /\ UNCHANGED <<ag_stub, ag_iterations, ag_steps, ag_partial, ag_queries>>
    /\ UNCHANGED nonAgentVars

(***************************************************************************)
(* The document pager: extract_pdf_content and display_content_viewer of   *)
(* the document-chat page.                                                 *)
(***************************************************************************)
\* content[:100]
PreviewLen == 100

Paths == {"processed_docs/A/A.pdf", "processed_docs/B/B.pdf"}

\* a page of a document: page.get_text("text") returns text or raises
TextPage(text) == [raises |-> FALSE, text |-> text]

BrokenPage == [raises |-> TRUE, text |-> <<>>]

LongText == [i \in 1..(PreviewLen + 1) |-> "x"]

NoDocument == [exists |-> FALSE, open_raises |-> FALSE, pages |-> <<>>]

Unreadable == [exists |-> TRUE, open_raises |-> TRUE, pages |-> <<>>]

Readable(pages) == [exists |-> TRUE, open_raises |-> FALSE, pages |-> pages]

BrokenSecond == Readable(<<TextPage(<<"a">>), BrokenPage>>)

\* what may lie at a path: nothing, a file fitz.open rejects, a document of
\* no pages, documents of one and two pages, and documents with a page that
\* cannot be read
Documents ==
    { NoDocument, Unreadable, Readable(<<>>),
      Readable(<<TextPage(<<" ", "a", "\n">>)>>),
      Readable(<<TextPage(<<"b">>), TextPage(LongText)>>),
      BrokenSecond,
      Readable(<<BrokenPage, TextPage(<<"a">>)>>) }

\* the loop over range(len(doc)): the pages read before the first page that
\* raises, and whether one raised
RECURSIVE ReadPages(_, _, _)
ReadPages(doc, page_num, pages_content) ==
    IF page_num > Len(doc.pages)
    THEN [raised |-> FALSE, pages_content |-> pages_content]
    ELSE IF doc.pages[page_num].raises
    THEN [raised |-> TRUE, pages_content |-> pages_content]
    ELSE LET content == Strip(doc.pages[page_num].text)
             preview == IF Len(content) > PreviewLen
                        THEN Take(content, PreviewLen) \o <<".", ".", ".">>
                        ELSE content
         IN ReadPages(doc, page_num + 1,
                      Append(pages_content,
                             [page_num |-> page_num, content |-> content,
                              preview |-> preview]))

\* an except clause that hands back the pages read so far
OnExtractErrorPartial(pages_content) ==
    [pages |-> pages_content, diagnostic |-> TRUE, raised |-> FALSE]

\* except Exception: st.error(...); return []
OnExtractError(pages_content) ==
    [pages |-> <<>>, diagnostic |-> TRUE, raised |-> FALSE]

\* extract_pdf_content(pdf_path) on the document at the path: the pages it
\* returns, whether st.error was called, whether an exception left it
extract_pdf_content(doc) ==
    IF doc.open_raises THEN OnExtractError(<<>>)
    ELSE LET r == ReadPages(doc, 1, <<>>)
         IN IF r.raised THEN OnExtractError(r.pages_content)
            ELSE [pages |-> r.pages_content, diagnostic |-> FALSE, raised |-> FALSE]

NotCached == [present |-> FALSE, pages |-> <<>>]

\* a cache test by the truth value of the entry
CacheHitNonEmpty(cache, path) == cache[path].present /\ cache[path].pages # <<>>

\* cache_key in st.session_state
CacheHit(cache, path) == cache[path].present

NoCall == [called |-> FALSE]

NothingShown == [path |-> "", kind |-> "none", pages |-> <<>>]

\* what the viewer shows for a page list
ShowPages(path, pages) ==
    [path |-> path, kind |-> IF pages = <<>> THEN "no content" ELSE "pages",
     pages |-> pages]

PagerIdle ==
    /\ pg_docs = [p \in Paths |-> NoDocument]
    /\ pg_cache = [p \in Paths |-> NotCached]
    /\ pg_calls = [p \in Paths |-> 0]
    /\ pg_first = [p \in Paths |-> <<>>]
    /\ pg_lookups = [p \in Paths |-> 0]
    /\ pg_shown = NothingShown
    /\ pg_last = NoCall

\* display_content_viewer(pdf_path)
DisplayContentViewer(pdf_path) ==
    /\ pg_lookups[pdf_path] < MaxLookups
    /\ pg_calls[pdf_path] < MaxCalls
    /\ pg_lookups' = [pg_lookups EXCEPT ![pdf_path] = @ + 1]
    /\ IF ~pg_docs[pdf_path].exists
       THEN /\ pg_shown' = [path |-> pdf_path, kind |-> "unavailable", pages |-> <<>>]
            /\ pg_last' = NoCall
            /\ UNCHANGED <<pg_cache, pg_calls, pg_first>>
       ELSE IF CacheHit(pg_cache, pdf_path)
       THEN /\ pg_shown' = ShowPages(pdf_path, pg_cache[pdf_path].pages)
            /\ pg_last' = NoCall
            /\ UNCHANGED <<pg_cache, pg_calls, pg_first>>
       ELSE LET r == extract_pdf_content(pg_docs[pdf_path])
            IN /\ pg_cache' = [pg_cache EXCEPT
                                  ![pdf_path] = [present |-> TRUE, pages |-> r.pages]]
               /\ pg_calls' = [pg_calls EXCEPT ![pdf_path] = @ + 1]
               /\ pg_first' = IF pg_calls[pdf_path] = 0
                              THEN [pg_first EXCEPT ![pdf_path] = r.pages]
                              ELSE pg_first
               /\ pg_last' = [called |-> TRUE, path |-> pdf_path,
                              doc |-> pg_docs[pdf_path], result |-> r]
               /\ pg_shown' = ShowPages(pdf_path, r.pages)
    /\ UNCHANGED pg_docs
    /\ UNCHANGED nonPagerVars

\* the file at a path is written, replaced or removed
ReplaceDocument(path, doc) ==
    /\ doc # pg_docs[path]
    /\ pg_docs' = [pg_docs EXCEPT ![path] = doc]
    /\ UNCHANGED <<pg_cache, pg_calls, pg_first, pg_lookups, pg_shown, pg_last>>
    /\ UNCHANGED nonPagerVars

(***************************************************************************)
(* get_recent_history of the document-chat page: the recent turns as text  *)
(* for the prompt.                                                         *)
(***************************************************************************)
\* "max_messages: int = 5"
DefaultMaxMessages == 5

\* the turns a log may hold: role and content
RecentTurns ==
    { [role |-> "user", content |-> <<"a">>],
      [role |-> "assistant", content |-> <<"b">>],
      [role |-> "system", content |-> <<"c">>] }

\* seq[-n:] for n >= 0: -0 is 0, so the slice starts at the first element
SliceFromMinus(seq, n) == IF n = 0 THEN seq ELSE LastN(seq, n)

\* "Human" if msg["role"] == "user" else "Assistant"
RoleLabel(role) ==
    IF role = "user" THEN <<"H", "u", "m", "a", "n">>
    ELSE <<"A", "s", "s", "i", "s", "t", "a", "n", "t">>

\* f"{role}: {msg['content']}"
FormatTurn(msg) == RoleLabel(msg.role) \o <<":", " ">> \o msg.content

get_recent_history(msgs, max_messages) ==
    LET recent_messages == IF msgs # <<>> THEN SliceFromMinus(msgs, max_messages)
                           ELSE <<>>
        formatted_history == [i \in 1..Len(recent_messages) |->
                                 FormatTurn(recent_messages[i])]
    IN Join(formatted_history, <<"\n">>)

RecentIdle ==
    /\ rh_messages = <<>>
    /\ rh_max_messages = DefaultMaxMessages
    /\ rh_out = <<>>
    /\ rh_op = "none"

\* a turn is appended to the log
RecentAppend(turn) ==
    /\ Len(rh_messages) < MaxLog
    /\ rh_messages' = Append(rh_messages, turn)
    /\ rh_op' = "append"
    /\ UNCHANGED <<rh_max_messages, rh_out>>
    /\ UNCHANGED nonRecentVars

\* get_recent_history(rh_messages, max_messages)
GetRecentHistory(max_messages) ==
    /\ rh_max_messages' = max_messages
    /\ rh_out' = get_recent_history(rh_messages, max_messages)
    /\ rh_op' = "recent"
    /\ UNCHANGED rh_messages
    /\ UNCHANGED nonRecentVars

\* get_recent_history(rh_messages): the call the page makes
GetRecentHistoryDefault ==
    /\ rh_max_messages' = DefaultMaxMessages
    /\ rh_out' = get_recent_history(rh_messages, DefaultMaxMessages)
    /\ rh_op' = "recent by default"
    /\ UNCHANGED rh_messages
    /\ UNCHANGED nonRecentVars

(***************************************************************************)
(* The history selector of the chat page, with the files of several        *)
(* agents in data/chat_history.                                            *)
(***************************************************************************)
\* the names an agent may be given, one of them beginning with another
AgentNames == { <<"Tutor">>, <<"Tutor", "_", "Math">>, <<"Math">> }

AgentKeys == { get_agent_id(n, d) : n \in AgentNames, d \in Days }

\* the file a session of agent n writes: its turns name the agent
SessionOf(n, d) == [exists |-> TRUE, turns |-> <<Turn("assistant", n, d)>>]

NoOptions == [name |-> <<>>, keys |-> {}]

NoneLoaded == [key |-> <<>>, turns |-> <<>>]

SelectorIdle ==
    /\ hs_store = [k \in AgentKeys |-> NoFile]
    /\ hs_config_name = <<"Tutor">>
    /\ hs_options = NoOptions
    /\ hs_loaded = NoneLoaded
    /\ hs_op = "none"

\* a session of agent n saves its history on day d
SessionSaves(n, d) ==
    /\ hs_store' = save_agent_history(hs_store, get_agent_id(n, d),
                                      SessionOf(n, d).turns)
    /\ hs_op' = "save"
    /\ UNCHANGED <<hs_config_name, hs_options, hs_loaded>>
    /\ UNCHANGED nonSelectorVars

\* a session begins with the agent configured as n
ConfigureAgent(n) ==
    /\ n # hs_config_name
    /\ hs_config_name' = n
    /\ hs_options' = NoOptions
    /\ hs_loaded' = NoneLoaded
    /\ hs_op' = "configure"
    /\ UNCHANGED hs_store
    /\ UNCHANGED nonSelectorVars

\* a run of the chat page: the sidebar lists the histories of the agent
ListHistories ==
    /\ hs_options' = [name |-> hs_config_name,
                      keys |-> histories(hs_store, hs_config_name)]
    /\ hs_op' = "list"
    /\ UNCHANGED <<hs_store, hs_config_name, hs_loaded>>
    /\ UNCHANGED nonSelectorVars

\* a run in which a listed history is selected and "Cargar Historial" pressed
LoadSelected(selected_history) ==
    /\ selected_history \in histories(hs_store, hs_config_name)
    /\ hs_options' = [name |-> hs_config_name,
                      keys |-> histories(hs_store, hs_config_name)]
    /\ hs_loaded' = [key |-> selected_history,
                     turns |-> load_agent_history(hs_store, selected_history)]
    /\ hs_op' = "load"
    /\ UNCHANGED <<hs_store, hs_config_name>>
    /\ UNCHANGED nonSelectorVars

(***************************************************************************)
(* The specifications.                                                     *)
(***************************************************************************)
Init ==
    /\ ChatIdle
    /\ SearchIdle
    /\ StoreIdle
    /\ AgentIdle
    /\ PagerIdle
    /\ RecentIdle
    /\ SelectorIdle

Next ==
    \/ \E p \in {"chat", "doc"} : Visit(p)
    \/ QueryOk
    \/ \E at \in {"init", "run"} : QueryError(at)
    \/ \E selected \in Keys : LoadHistory(selected)
    \/ ClearChat
    \/ SaveHistory
    \/ DayRollover

Spec == Init /\ [][Next]_vars

InitResumed ==
    /\ ChatResumed
    /\ SearchIdle
    /\ StoreIdle
    /\ AgentIdle
    /\ PagerIdle
    /\ RecentIdle
    /\ SelectorIdle

SpecResumed == InitResumed /\ [][Next]_vars

InitSearch ==
    /\ ChatIdle
    /\ StoreIdle
    /\ AgentIdle
    /\ PagerIdle
    /\ RecentIdle
    /\ SelectorIdle
    /\ sd_vectorstores = <<>>
    /\ sd_context_window \in 1..MaxWindow
    /\ sd_out = NoOutput

NextSearch ==
    \/ \E title \in Titles : CfgAddIndex(title)
    \/ \E text \in Texts : CfgAddDoc(text)
    \/ CfgIndexFails
    \/ SearchDocuments

SpecSearch == InitSearch /\ [][NextSearch]_vars

InitStore ==
    /\ ChatIdle
    /\ SearchIdle
    /\ StoreIdle
    /\ AgentIdle
    /\ PagerIdle
    /\ RecentIdle
    /\ SelectorIdle

NextStore ==
    \/ \E content \in Contents : StoreAppend(content)
    \/ StoreClear
    \/ \E agent_id \in Keys : StoreSave(agent_id)
    \/ \E agent_id \in Keys : StoreLoad(agent_id)

SpecStore == InitStore /\ [][NextStore]_vars

InitAgent ==
    /\ ChatIdle
    /\ SearchIdle
    /\ StoreIdle
    /\ PagerIdle
    /\ RecentIdle
    /\ SelectorIdle
    /\ ag_stub \in Stubs
    /\ ag_status = "Uninitialized"
    /\ ag_iterations = 0
    /\ ag_steps = <<>>
    /\ ag_partial = <<>>
    /\ ag_result = NoResult
    /\ ag_queries = 0

NextAgent ==
    \/ AgentRun
    \/ \E thought \in Thoughts, observation \in Observations :
           AgentCallsTool(thought, observation)
    \/ \E answer \in {<<"answer">>} : AgentAnswers(answer)
    \/ AgentModelRaises
    \/ AgentCapReached

SpecAgent == InitAgent /\ [][NextAgent]_vars

InitPager ==
    /\ ChatIdle
    /\ SearchIdle
    /\ StoreIdle
    /\ AgentIdle
    /\ PagerIdle
    /\ RecentIdle
    /\ SelectorIdle

NextPager ==
    \/ \E pdf_path \in Paths : DisplayContentViewer(pdf_path)
    \/ \E path \in Paths, doc \in Documents : ReplaceDocument(path, doc)

SpecPager == InitPager /\ [][NextPager]_vars

InitRecent ==
    /\ ChatIdle
    /\ SearchIdle
    /\ StoreIdle
    /\ AgentIdle
    /\ PagerIdle
    /\ RecentIdle
    /\ SelectorIdle

NextRecent ==
    \/ \E turn \in RecentTurns : RecentAppend(turn)
    \/ \E max_messages \in 0..MaxRecent : GetRecentHistory(max_messages)
    \/ GetRecentHistoryDefault

SpecRecent == InitRecent /\ [][NextRecent]_vars

InitSelector ==
    /\ ChatIdle
    /\ SearchIdle
    /\ StoreIdle
    /\ AgentIdle
    /\ PagerIdle
    /\ RecentIdle
    /\ SelectorIdle

NextSelector ==
    \/ \E n \in AgentNames, d \in Days : SessionSaves(n, d)
    \/ \E n \in AgentNames : ConfigureAgent(n)
    \/ ListHistories
    \/ \E selected_history \in AgentKeys : LoadSelected(selected_history)

SpecSelector == InitSelector /\ [][NextSelector]_vars

(***************************************************************************)
(* Claims about the session.                                               *)
(***************************************************************************)
Range(seq) == { seq[i] : i \in 1..Len(seq) }

TodayKey == get_agent_id(config_name, today)

\* C4: on either page the in-memory log never holds more than 15 turns.
C4_LogNeverExceeds15 == Len(messages) <= 15

\* C5: as long as the chat is neither cleared nor replaced by a loaded
\* history, a turn written to a key's file stays in that file.
C5_StoredTurnsStay ==
    [][~resets' =>
          \A k \in Keys : Range(files[k].turns) \subseteq Range(files'[k].turns)]_vars

\* C6: after a query during which the model invocation raised, the error
\* turn is the last turn of the log and is in today's session file.
C6_ErrorTurnPersisted ==
    last_op = "query error" =>
        /\ messages[Len(messages)].content = "error"
        /\ messages[Len(messages)] \in Range(files[TodayKey].turns)

(***************************************************************************)
(* Claims about search_documents.                                          *)
(***************************************************************************)
\* the passages of all indexes in index-then-rank order, texts trimmed
RECURSIVE AllPassages(_)
AllPassages(vss) ==
    IF vss = <<>> THEN <<>>
    ELSE [k \in 1..Len(Head(vss).docs) |->
             [title |-> Head(vss).title, text |-> Strip(Head(vss).docs[k])]]
         \o AllPassages(Tail(vss))

\* the first occurrence of every distinct text, in order
RECURSIVE FirstOccurrences(_, _)
FirstOccurrences(ps, acc) ==
    IF ps = <<>> THEN acc
    ELSE IF \E j \in 1..Len(acc) : acc[j].text = Head(ps).text
         THEN FirstOccurrences(Tail(ps), acc)
         ELSE FirstOccurrences(Tail(ps), Append(acc, Head(ps)))

DistinctBlocks(vss) ==
    LET d == FirstOccurrences(AllPassages(vss), <<>>)
    IN [k \in 1..Len(d) |-> FormatResult(d[k].title, d[k].text)]

SomeIndexRaises == \E i \in 1..Len(sd_vectorstores) : sd_vectorstores[i].raises

HasSep(s) == \E i \in 1..Len(s) : MatchAt(s, <<"]", ":">>, i)

SepFree ==
    \A i \in 1..Len(sd_vectorstores) :
        /\ ~HasSep(sd_vectorstores[i].title)
        /\ \A k \in 1..Len(sd_vectorstores[i].docs) :
               ~HasSep(sd_vectorstores[i].docs[k])

Searched == sd_out.kind # "none yet"

\* C1: when every index answers and the budget does not cut the list, the
\* output holds each distinct trimmed passage text exactly once, the first
\* occurrence in index-then-rank order, whatever the titles and texts hold.
C1_EachDistinctTextOnce ==
    (/\ Searched
     /\ ~SomeIndexRaises
     /\ TotalPassages(sd_vectorstores) <= sd_context_window)
    => sd_out.blocks = DistinctBlocks(sd_vectorstores)

\* the configured indexes whose retriever does not raise
WorkingIndexes == SelectSeq(sd_vectorstores, LAMBDA vs : ~vs.raises)

\* C2: when an index raises, the passages accepted from the other indexes
\* are still in the output, next to a diagnostic for the failing index.
C2_FailingIndexDropsOnlyItself ==
    (Searched /\ SomeIndexRaises)
    => /\ sd_out.blocks =
              Truncate(ProcessIndexes(<<>>, WorkingIndexes).results,
                       sd_context_window)
       /\ sd_out.kind = "error"

C7_SaveLoadRoundTrip ==
    st_op = "load" =>
        /\ ~st_loaded.raised
        /\ st_loaded.turns =
               IF st_saved[st_loaded.key].exists
               THEN st_saved[st_loaded.key].turns
               ELSE <<>>

\* two turns with multi-byte and escaped contents came back from the file
C7_Witness ==
    /\ st_op = "load"
    /\ st_saved[st_loaded.key].exists
    /\ Len(st_loaded.turns) = 2
    /\ st_loaded.turns[1][1].value = AssistantRole
    /\ st_loaded.turns[1][2].value = <<128172, 97>>
    /\ st_loaded.turns[2][1].value = UserRole
    /\ st_loaded.turns[2][2].value = <<34, 92, 110>>
    /\ st_loaded.turns[2][3].value = IsoTimestamp(2)

\* a key with no file gave the empty list, next to a key with a file
C7_WitnessNoFile ==
    /\ st_op = "load"
    /\ ~st_disk[st_loaded.key].exists
    /\ \E k \in Keys : st_disk[k].exists /\ st_saved[k].turns # <<>>

(***************************************************************************)
(* Claims about the agent loop.                                            *)
(***************************************************************************)
\* C8: with a model that asks for a tool call at every iteration, a query
\* never goes past 3 iterations, a query that is still being answered can
\* always take its next step, and the query ends, without an error, with a
\* non-empty fallback answer
C8_IterationBound ==
    ag_stub = "always tool" =>
        /\ ag_iterations <= 3
        /\ Len(ag_steps) = ag_iterations
        /\ ag_status = "Answering" =>
               \/ ENABLED AgentCapReached
               \/ ENABLED (\E t \in Thoughts, o \in Observations : AgentCallsTool(t, o))
        /\ (ag_status = "Initialized" /\ ag_queries > 0) =>
               /\ ag_result.kind = "fallback"
               /\ ag_result.output # <<>>

\* the stub's query ended at the cap, after three tool calls and with no
\* partial answer
C8_Witness ==
    /\ ag_stub = "always tool"
    /\ ag_status = "Initialized"
    /\ ag_iterations = 3
    /\ Len(ag_steps) = 3
    /\ ag_partial = <<>>
    /\ ag_result = [kind |-> "fallback", output |-> CouldNotComplete]

(***************************************************************************)
(* Claims about the document pager.                                        *)
(***************************************************************************)
\* whether reading the document raises, on opening or at some page
ReaderRaises(doc) ==
    doc.open_raises \/ \E k \in 1..Len(doc.pages) : doc.pages[k].raises

\* C9: extract_pdf_content is called at most once per path; from that call
\* on the cache holds what it returned, and every lookup of the path shows
\* exactly that, whatever is looked up in between and whatever the file has
\* become
C9_ExtractedOncePerPath ==
    \A p \in Paths :
        /\ pg_calls[p] <= 1
        /\ pg_cache[p].present <=> pg_calls[p] = 1
        /\ pg_cache[p].present => pg_cache[p].pages = pg_first[p]
        /\ (pg_shown.path = p /\ pg_shown.kind \in {"pages", "no content"}) =>
               /\ pg_cache[p].present
               /\ pg_shown.pages = pg_first[p]

\* a path whose first extraction gave no pages was looked up again, served
\* from the cache although its file now holds pages, with the other path
\* extracted in between
C9_Witness ==
    \E p \in Paths, q \in Paths :
        /\ p # q
        /\ pg_lookups[p] = 2
        /\ pg_calls[p] = 1
        /\ pg_first[p] = <<>>
        /\ pg_shown = [path |-> p, kind |-> "no content", pages |-> <<>>]
        /\ pg_last = NoCall
        /\ pg_docs[p].exists /\ ~ReaderRaises(pg_docs[p]) /\ pg_docs[p].pages # <<>>
        /\ pg_calls[q] = 1
        /\ pg_first[q] # <<>>

\* C10: when the reader raises, on opening the file or at any page,
\* extract_pdf_content returns the empty list, reports the error, and lets
\* no exception out
C10_ReaderErrorGivesEmpty ==
    (pg_last.called /\ ReaderRaises(pg_last.doc)) =>
        /\ pg_last.result.pages = <<>>
        /\ pg_last.result.diagnostic
        /\ ~pg_last.result.raised

\* a document whose first page was read and whose second page raised
C10_Witness ==
    /\ pg_last.called
    /\ pg_last.doc = BrokenSecond
    /\ pg_last.result.pages = <<>>
    /\ pg_last.result.diagnostic

(***************************************************************************)
(* Claims about the agent's lifetime.                                      *)
(***************************************************************************)
\* C11: an agent is built only by a query that finds none in the session,
\* so an agent that exists is the one every later query uses, and the only
\* step that removes an agent is the clearing of the chat; hence between
\* two constructions the chat was cleared
C11_AgentBuiltOncePerClear ==
    [][/\ agent_builds' # agent_builds =>
           /\ agent_builds' = agent_builds + 1
           /\ ~agent /\ agent'
           /\ last_op' \in {"query ok", "query error"}
       /\ (~agent /\ agent') => agent_builds' = agent_builds + 1
       /\ (agent /\ ~agent') => last_op' = "clear"]_vars

\* a second agent has been built: the first one served an answered and a
\* failed query, then the chat was cleared and a query asked
C11_Witness ==
    /\ agent_builds = 2
    /\ agent
    /\ failures = 1
    /\ resets
    /\ last_op = "query ok"

(***************************************************************************)
(* Claims about get_recent_history.                                        *)
(***************************************************************************)
\* the last n turns of a log, oldest first
LastTurns(msgs, n) == SubSeq(msgs, Len(msgs) - n + 1, Len(msgs))

\* C12: get_recent_history(messages, k) is the text of the last
\* min(k, len(messages)) turns, oldest first, one line per turn, "Human:"
\* before a user turn and "Assistant:" before any other; with k = 0 or an
\* empty log it is the empty string, and the default k is 5
C12_RecentIsLastK ==
    /\ rh_op \in {"recent", "recent by default"} =>
           LET recent == LastTurns(rh_messages, Min(rh_max_messages, Len(rh_messages)))
           IN /\ rh_out = Join([i \in 1..Len(recent) |-> FormatTurn(recent[i])], <<"\n">>)
              /\ (rh_max_messages = 0 \/ rh_messages = <<>>) => rh_out = <<>>
    /\ rh_op = "recent by default" => rh_max_messages = 5

(***************************************************************************)
(* Claims about the order of a query.                                      *)
(***************************************************************************)
\* C13: a query appends the user turn before the agent is called, the
\* answer after it returns, and writes the file last: after an answered
\* query the file of today's key is the log as it stood before the query,
\* then the user turn, then the answer, and the log left in memory is the
\* end of that file; after a failed query the log ends with the user turn
\* and the error turn
C13_QueryOrder ==
    [][clock' = clock + 2 =>
           LET key == get_agent_id(config_name, today)
               asked == Turn("user", "q", clock)
               n == Len(messages')
           IN /\ last_op' \in {"query ok", "query error"}
              /\ n >= 2
              /\ messages'[n - 1] = asked
              /\ messages'[n].role = "assistant"
              /\ messages'[n].timestamp = clock + 1
              /\ last_op' = "query ok" =>
                     /\ files'[key].exists
                     /\ files'[key].turns =
                            messages \o <<asked, Turn("assistant", "a", clock + 1)>>
                     /\ messages' = LastN(files'[key].turns, n)
                     /\ \A k \in Keys \ {key} : files'[k] = files[k]]_vars

\* an answered query on the chat page left sixteen turns in today's file and
\* the last fifteen of them in memory
C13_Witness ==
    /\ last_op = "query ok"
    /\ page = "chat"
    /\ files[TodayKey].exists
    /\ Len(files[TodayKey].turns) = 16
    /\ Len(messages) = 15
    /\ messages = LastN(files[TodayKey].turns, 15)
    /\ messages[15].timestamp = clock - 1

(***************************************************************************)
(* Claims about the history selector.                                      *)
(***************************************************************************)
\* the session keys made for agent n
KeysOf(n) == { get_agent_id(n, d) : d \in Days }

\* C14: the selector of agent X offers, and loads, only keys made for X,
\* never the file of another agent Y, also when X begins Y's name
C14_OnlyOwnHistories ==
    /\ hs_options.keys \subseteq KeysOf(hs_options.name)
    /\ hs_op = "load" =>
           /\ hs_loaded.key \in KeysOf(hs_config_name)
           /\ \A i \in 1..Len(hs_loaded.turns) :
                  hs_loaded.turns[i].content = hs_config_name

(***************************************************************************)
(* Claims about the files a session writes.                                *)
(***************************************************************************)
\* C15: a step changes no file but the one of today's key, and only an
\* answered query or a manual save changes that one; a clear changes none.
\* So a stored session that was loaded under another key stays as it was
C15_WritesOnlyToTodaysFile ==
    [][/\ \A k \in Keys :
              files'[k] # files[k] =>
                  /\ k = get_agent_id(config_name, today)
                  /\ last_op' \in {"query ok", "save"}
       /\ (last_op' = "clear" /\ messages' = <<>>) => files' = files]_vars

\* on the second day the first day's session was loaded, a query answered
\* and the chat cleared: the first day's file is as it was and the second
\* day's file holds the loaded turns and the query
C15_Witness ==
    /\ today = 2
    /\ last_op = "clear"
    /\ messages = <<>>
    /\ files[get_agent_id(config_name, 1)] = [exists |-> TRUE, turns |-> EarlierSession]
    /\ files[get_agent_id(config_name, 2)].exists
    /\ Len(files[get_agent_id(config_name, 2)].turns) = Len(EarlierSession) + 2
    /\ SubSeq(files[get_agent_id(config_name, 2)].turns, 1, Len(EarlierSession))
           = EarlierSession

=============================================================================
